---- MODULE Spec2Model ----
(***************************************************************************)
(* Model of app.py (AI Product Teardown Engine, compare mode):             *)
(*   - build_teardown_prompt / depth_to_instruction  (prompt builder)      *)
(*   - call_llm                                      (completion client)   *)
(*   - extract_json                                  (structured extractor)*)
(*   - generate_teardown and the top-to-bottom script run                  *)
(*                                                                         *)
(* Texts are sequences of characters.  Two multi-character units are kept  *)
(* atomic: the backtick triple (written <ticks>) and the word json; every   *)
(* other character is a one-character string.                              *)
(***************************************************************************)
EXTENDS Integers, Sequences, FiniteSets, TLC

\* ------------------------------------------------------------------------
\* Characters
\* ------------------------------------------------------------------------
TICKS    == "<ticks>"
JSONWORD == "json"
QUOTE    == "\""
BSLASH   == "\\"
SPACE    == " "
DIGIT    == "1"
LETTER   == "a"

\* Python's None where a text is expected (not a sequence of characters of
\* the alphabet above).
PyNone == <<"None">>

\* ------------------------------------------------------------------------
\* JSON values: Python's dict / list / str / int as uniform records.
\* An object's c holds key, value, key, value, ... in insertion order.
\* ------------------------------------------------------------------------
NoneVal  == [t |-> "none", s |-> <<>>, c |-> <<>>]
Num(ds)  == [t |-> "num", s |-> ds, c |-> <<>>]
Str(cs)  == [t |-> "str", s |-> cs, c |-> <<>>]
Arr(xs)  == [t |-> "arr", s |-> <<>>, c |-> xs]
Obj(kvs) == [t |-> "obj", s |-> <<>>, c |-> kvs]

\* A decoder step: ok, the value decoded, the index after it.
Fail     == [ok |-> FALSE, v |-> NoneVal, i |-> 0]
Ok(v, i) == [ok |-> TRUE, v |-> v, i |-> i]

\* json.decoder WHITESPACE.match(s, i).end(): first index at or after i that
\* holds no whitespace (Len(s)+1 at the end of the text).
SkipWs(s, i) ==
    CHOOSE j \in i..(Len(s) + 1) :
        /\ (j = Len(s) + 1 \/ s[j] # SPACE)
        /\ \A k \in i..(j - 1) : s[k] = SPACE

\* json.decoder.py_scanstring, from the index after the opening quote: the
\* content up to the closing quote; a backslash must be followed by a quote
\* or a backslash (the only escapes this alphabet can spell).
RECURSIVE ScanString(_, _, _)
ScanString(s, i, acc) ==
    IF i > Len(s) THEN Fail
    ELSE IF s[i] = QUOTE THEN Ok(Str(acc), i + 1)
    ELSE IF s[i] = BSLASH
         THEN IF i + 1 <= Len(s) /\ s[i + 1] \in {QUOTE, BSLASH}
              THEN ScanString(s, i + 2, Append(acc, s[i + 1]))
              ELSE Fail
    ELSE ScanString(s, i + 1, Append(acc, s[i]))

\* json.scanner NUMBER_RE: the longest run of digits from i.
NumberEnd(s, i) ==
    CHOOSE j \in i..(Len(s) + 1) :
        /\ (j = Len(s) + 1 \/ s[j] # DIGIT)
        /\ \A k \in i..(j - 1) : s[k] = DIGIT

\* dict assignment d[k] = v: a repeated key keeps its place, the last value wins.
DictSet(kvs, k, v) ==
    IF \E n \in 1..(Len(kvs) \div 2) : kvs[2 * n - 1] = k
    THEN [n \in 1..Len(kvs) |->
            IF n % 2 = 0 /\ kvs[n - 1] = k THEN v ELSE kvs[n]]
    ELSE kvs \o <<k, v>>

\* json.scanner.py_make_scanner._scan_once, json.decoder.JSONObject and
\* json.decoder.JSONArray.
RECURSIVE ScanOnce(_, _), JSONObject(_, _, _), JSONArray(_, _, _)
ScanOnce(s, i) ==
    IF i > Len(s) THEN Fail
    ELSE CASE s[i] = QUOTE -> ScanString(s, i + 1, <<>>)
           [] s[i] = "{" ->
                LET j == SkipWs(s, i + 1) IN
                IF j <= Len(s) /\ s[j] = "}" THEN Ok(Obj(<<>>), j + 1)
                ELSE JSONObject(s, j, <<>>)
           [] s[i] = "[" ->
                LET j == SkipWs(s, i + 1) IN
                IF j <= Len(s) /\ s[j] = "]" THEN Ok(Arr(<<>>), j + 1)
                ELSE JSONArray(s, j, <<>>)
           [] s[i] = DIGIT ->
                LET j == NumberEnd(s, i) IN Ok(Num(SubSeq(s, i, j - 1)), j)
           [] OTHER -> Fail

\* From the index j of a key's opening quote.
JSONObject(s, j, acc) ==
    IF j > Len(s) \/ s[j] # QUOTE THEN Fail
    ELSE LET k == ScanString(s, j + 1, <<>>) IN
         IF ~k.ok THEN Fail
         ELSE LET c == SkipWs(s, k.i) IN
              IF c > Len(s) \/ s[c] # ":" THEN Fail
              ELSE LET v == ScanOnce(s, SkipWs(s, c + 1)) IN
                   IF ~v.ok THEN Fail
                   ELSE LET e    == SkipWs(s, v.i)
                            acc2 == DictSet(acc, k.v, v.v)
                        IN  IF e > Len(s) THEN Fail
                            ELSE IF s[e] = "}" THEN Ok(Obj(acc2), e + 1)
                            ELSE IF s[e] = ","
                                 THEN JSONObject(s, SkipWs(s, e + 1), acc2)
                            ELSE Fail

\* From the index j of an element's first character.
JSONArray(s, j, acc) ==
    LET v == ScanOnce(s, j) IN
    IF ~v.ok THEN Fail
    ELSE LET e == SkipWs(s, v.i) IN
         IF e > Len(s) THEN Fail
         ELSE IF s[e] = "]" THEN Ok(Arr(Append(acc, v.v)), e + 1)
         ELSE IF s[e] = ","
              THEN JSONArray(s, SkipWs(s, e + 1), Append(acc, v.v))
         ELSE Fail

\* json.loads(s): one value, whitespace around it, nothing else; ok is FALSE
\* where json.loads raises.
Loads(s) ==
    LET r == ScanOnce(s, SkipWs(s, 1)) IN
    IF r.ok /\ SkipWs(s, r.i) = Len(s) + 1 THEN r ELSE Fail

\* json.encoder: a string's content with quote and backslash escaped.
RECURSIVE Escape(_)
Escape(cs) ==
    IF cs = <<>> THEN <<>>
    ELSE (IF Head(cs) \in {QUOTE, BSLASH} THEN <<BSLASH, Head(cs)>>
          ELSE <<Head(cs)>>) \o Escape(Tail(cs))

\* json.dumps(v) with the default separators ", " and ": ".
RECURSIVE Dumps(_), DumpItems(_), DumpMembers(_)
Dumps(v) ==
    CASE v.t = "num" -> v.s
      [] v.t = "str" -> <<QUOTE>> \o Escape(v.s) \o <<QUOTE>>
      [] v.t = "arr" -> <<"[">> \o DumpItems(v.c) \o <<"]">>
      [] v.t = "obj" -> <<"{">> \o DumpMembers(v.c) \o <<"}">>

DumpItems(xs) ==
    IF xs = <<>> THEN <<>>
    ELSE Dumps(Head(xs))
         \o (IF Len(xs) > 1 THEN <<",", SPACE>> \o DumpItems(Tail(xs)) ELSE <<>>)

DumpMembers(kvs) ==
    IF kvs = <<>> THEN <<>>
    ELSE Dumps(kvs[1]) \o <<":", SPACE>> \o Dumps(kvs[2])
         \o (IF Len(kvs) > 2 THEN <<",", SPACE>> \o DumpMembers(SubSeq(kvs, 3, Len(kvs)))
             ELSE <<>>)

\* ------------------------------------------------------------------------
\* extract_json
\* ------------------------------------------------------------------------

\* Whether the group of the fence pattern
\* <ticks>json\s*(\{.*\}|\[.*\])\s*<ticks> can end at e for an opening fence at p.
FenceGroupAt(text, p, e) ==
    /\ p + 1 <= Len(text) /\ text[p] = TICKS /\ text[p + 1] = JSONWORD
    /\ LET q == SkipWs(text, p + 2) IN
          /\ q < e /\ e <= Len(text)
          /\ \/ text[q] = "{" /\ text[e] = "}"
             \/ text[q] = "[" /\ text[e] = "]"
          /\ LET c == SkipWs(text, e + 1) IN c <= Len(text) /\ text[c] = TICKS

\* re.search(...): the leftmost opening fence that has a match, and for it the
\* greedy (longest) group; found is FALSE when the pattern matches nowhere.
FenceSearch(text) ==
    LET Starts == {p \in 1..Len(text) :
                     \E e \in 1..Len(text) : FenceGroupAt(text, p, e)}
    IN  IF Starts = {} THEN [found |-> FALSE, group |-> <<>>]
        ELSE LET p == CHOOSE x \in Starts : \A y \in Starts : x <= y
                 Ends == {e \in 1..Len(text) : FenceGroupAt(text, p, e)}
                 e == CHOOSE x \in Ends : \A y \in Ends : y <= x
             IN  [found |-> TRUE, group |-> SubSeq(text, SkipWs(text, p + 2), e)]

\* str.find("{") and str.rfind("}"): 0 where Python gives -1.
Find(text, ch) ==
    IF \E i \in 1..Len(text) : text[i] = ch
    THEN CHOOSE i \in 1..Len(text) :
            text[i] = ch /\ \A k \in 1..(i - 1) : text[k] # ch
    ELSE 0

RFind(text, ch) ==
    IF \E i \in 1..Len(text) : text[i] = ch
    THEN CHOOSE i \in 1..Len(text) :
            text[i] = ch /\ \A k \in (i + 1)..Len(text) : text[k] # ch
    ELSE 0

\* re.sub(r",\s*([}\]])", r"\1", s): one left-to-right pass; a comma followed
\* by optional whitespace and a closing brace or bracket is dropped together
\* with that whitespace.
RECURSIVE StripTrailingCommas(_, _)
StripTrailingCommas(s, i) ==
    IF i > Len(s) THEN <<>>
    ELSE LET j == SkipWs(s, i + 1) IN
         IF s[i] = "," /\ j <= Len(s) /\ s[j] \in {"}", "]"}
         THEN <<s[j]>> \o StripTrailingCommas(s, j + 1)
         ELSE <<s[i]>> \o StripTrailingCommas(s, i + 1)

\* extract_json(text): the value returned (NoneVal for None) and the return
\* statement that produced it.
ExtractJsonRun(text0) ==
    IF text0 = PyNone \/ text0 = <<>>
    THEN [val |-> NoneVal, path |-> "empty", fenced |-> FALSE]
    ELSE LET m      == FenceSearch(text0)
             text   == IF m.found THEN m.group ELSE text0
             direct == Loads(text)
         IN  IF direct.ok
             THEN [val |-> direct.v, path |-> "direct", fenced |-> m.found]
             ELSE LET start == Find(text, "{")
                      end   == RFind(text, "}")
                  IN  IF start # 0 /\ end # 0 /\ end > start
                      THEN LET candidate == SubSeq(text, start, end)
                               second    == Loads(candidate)
                           IN  IF second.ok
                               THEN [val |-> second.v, path |-> "braces",
                                     fenced |-> m.found]
                               ELSE LET candidate2 ==
                                           StripTrailingCommas(candidate, 1)
                                        third == Loads(candidate2)
                                    IN  IF third.ok
                                        THEN [val |-> third.v, path |-> "repair",
                                              fenced |-> m.found]
                                        ELSE [val |-> NoneVal, path |-> "fail",
                                              fenced |-> m.found]
                      ELSE [val |-> NoneVal, path |-> "nobraces",
                            fenced |-> m.found]

ExtractJson(text) == ExtractJsonRun(text).val

\* ------------------------------------------------------------------------
\* Prompt builder
\* ------------------------------------------------------------------------

\* dict.get(k, default)
DictGet(table, k, default) == IF k \in DOMAIN table THEN table[k] ELSE default

INDUSTRY_TEMPLATES ==
    [k \in {"General / Consumer", "FinTech", "Marketplace", "SaaS / B2B",
            "EdTech", "HealthTech"} |->
        CASE k = "General / Consumer" ->
               "Focus on consumer acquisition, retention hooks, network effects, pricing psychology, and UX simplicity."
          [] k = "FinTech" ->
               "Focus on regulatory constraints, payments & flows, trust signals, onboarding (KYC), ..."
          [] k = "Marketplace" ->
               "Focus on two-sided network dynamics (supply/demand), liquidity, take rates, ..."
          [] k = "SaaS / B2B" ->
               "Focus on buyer personas, sales motions (self-serve vs enterprise), ..."
          [] k = "EdTech" ->
               "Focus on learning outcomes, curriculum design, engagement loops, ..."
          [] k = "HealthTech" ->
               "Focus on trust & compliance (HIPAA-like), clinician workflows, ..."]

DepthInstructions ==
    [d \in {"Quick (bullets)", "Standard (detailed)", "Deep (comprehensive)"} |->
        CASE d = "Quick (bullets)" ->
               "Produce concise, high-impact bullet points (1-4 bullets per section)."
          [] d = "Standard (detailed)" ->
               "Provide structured analysis with 4-8 bullets per section and short rationale sentences."
          [] d = "Deep (comprehensive)" ->
               "Provide an in-depth multi-paragraph analysis using frameworks and examples for each section."]

depth_to_instruction(d) == DictGet(DepthInstructions, d, "")

YesNo(flag) == IF flag THEN "yes" ELSE "no"

\* The f-string of build_teardown_prompt as its fixed and interpolated pieces.
build_teardown_prompt(product_text, industry_key, d, user_flow, metrics, templates) ==
    LET industry_hint        == DictGet(INDUSTRY_TEMPLATES, industry_key, "")
        explicit_instruction == depth_to_instruction(d)
    IN  << "You are an expert Product Manager & Growth strategist. Product description:",
           product_text,
           "Context:", industry_hint,
           "Depth instruction:", explicit_instruction,
           "Produce exactly ONE JSON object (no surrounding text) with the following keys: strategy, growth_loops, engagement_mechanics, kpis, ux_teardown, swot, opportunities, one_pager",
           "REQUIREMENTS: Return valid JSON only (no commentary).",
           "If INCLUDE_USER_FLOW is", YesNo(user_flow),
           "If INCLUDE_METRICS is", YesNo(metrics),
           "If INCLUDE_TEMPLATES is", YesNo(templates),
           "Be concrete and action-oriented." >>

\* Where the interpolated pieces sit in the prompt.
PromptContext(p) == p[4]
PromptDepthClause(p) == p[6]

\* ------------------------------------------------------------------------
\* State
\* ------------------------------------------------------------------------
VARIABLES
    pc,                 \* the statement the run is at
    \* module namespace of one script run
    client,             \* "None" or "configured"
    defined,            \* the function names bound so far
    industry, depth, include_user_flow, include_metrics, include_templates,
    model, temperature, run_button, app_a, app_b,
    teardown_a, raw_a, teardown_b, raw_b,
    error,              \* the exception that ended the run, NoError if none
    \* generate_teardown frame
    req,                \* "a", "b", or "none" outside generate_teardown
    product_text, prompt,
    invocations,        \* call_llm invocations made for the request in req
    \* call_llm frame
    tries, attempt, last_exc, ret,
    sleeps,             \* durations passed to time.sleep, in order
    served,             \* what the completion service did on each call, in order
    surfaced,           \* the exception st.error displayed, NoError if none
    \* extract_json harness
    text, origin, result, path

vars == << pc, client, defined, industry, depth, include_user_flow,
           include_metrics, include_templates, model, temperature, run_button,
           app_a, app_b, teardown_a, raw_a, teardown_b, raw_b, error, req,
           product_text, prompt, invocations, tries, attempt, last_exc, ret,
           sleeps, served, surfaced, text, origin, result, path >>

namespaceVars == << client, defined, industry, depth, include_user_flow,
                    include_metrics, include_templates, model, temperature,
                    run_button, app_a, app_b, teardown_a, raw_a, teardown_b,
                    raw_b, error >>
sidebarVars   == << industry, depth, include_user_flow, include_metrics,
                    include_templates, model, temperature, run_button, app_a,
                    app_b >>
resultVars    == << teardown_a, raw_a, teardown_b, raw_b >>
requestVars   == << req, product_text, prompt, invocations >>
callVars      == << tries, attempt, last_exc, ret, sleeps, served, surfaced >>
extractVars   == << text, origin, result, path >>

\* ------------------------------------------------------------------------
\* Bounds and input sets
\* ------------------------------------------------------------------------
MaxTries  == 4      \* largest attempt budget the call_llm harness draws
MaxStrLen == 5      \* longest string value of a serialized object
MaxParts  == 5      \* most parts a raw input text is concatenated from

\* tries=3 at the call in generate_teardown
GenerateTries == 3

ErrorCauses == {"network", "rate_limit"}

\* Exceptions are <<kind, number of the call that raised it>>.
NoExc      == <<"None", 0>>         \* last_exc = None
NoError    == <<"none", 0>>         \* nothing raised / nothing displayed
NameError  == <<"NameError", 0>>
AttributeError == <<"AttributeError", 0>>

\* str(resp) of a response whose choices[0].message.content cannot be read.
StrOfResp == <<"ChatCompletion(...)">>

SmallObject == Obj(<<Str(<<LETTER>>), Num(<<DIGIT>>)>>)

\* Contents the service answers with: a bare object, a fenced object inside
\* prose, prose without JSON, a bare array, and the empty string.
Responses ==
    { Dumps(SmallObject),
      <<LETTER, SPACE, TICKS, JSONWORD, SPACE>> \o Dumps(SmallObject) \o <<SPACE, TICKS>>,
      <<LETTER, SPACE, LETTER>>,
      <<"[", DIGIT, "]">>,
      <<>> }

Models       == {"gpt-4o-mini", "gpt-4o"}
Temperatures == {0, 2, 9}       \* tenths, the slider's 0.0 .. 0.9

\* ------------------------------------------------------------------------
\* call_llm
\* ------------------------------------------------------------------------

\* Mutation: the missing client is not noticed.
ClientNeverMissing(c) == FALSE

\* if client is None
ClientMissing(c) == c = "None"

\* Mutation: range(tries + 1), one iteration too many.
LoopContinuesOffByOne(a, n) == a <= n

\* for attempt in range(tries): whether another iteration runs
LoopContinues(a, n) == a < n

\* except Exception as e: every failure of the call is caught
Caught(e) == TRUE

\* Mutation: only the first exception is kept.
KeepFirstExc(prev, e) == IF prev = NoExc THEN e ELSE prev

\* last_exc = e
NextLastExc(prev, e) == e

\* time.sleep(1 + attempt)
BackoffDelay(a) == 1 + a

CallEntry ==
    /\ pc = "call_llm"
    /\ IF ClientMissing(client)
       THEN /\ ret' = PyNone
            /\ pc' = "call_return"
            /\ UNCHANGED last_exc
       ELSE /\ last_exc' = NoExc
            /\ pc' = "call_loop"
            /\ UNCHANGED ret
    /\ UNCHANGED << namespaceVars, requestVars, extractVars, tries, attempt,
                    sleeps, served, surfaced >>

\* client.chat.completions.create(...) answers and .content is read.
AttemptReturns ==
    /\ pc = "call_loop"
    /\ LoopContinues(attempt, tries)
    /\ client = "configured"
    /\ \E r \in Responses :
          /\ served' = Append(served, [kind |-> "text", x |-> r])
          /\ ret' = r
    /\ pc' = "call_return"
    /\ UNCHANGED << namespaceVars, requestVars, extractVars, tries, attempt,
                    last_exc, sleeps, surfaced >>

\* The call answers, reading .content raises, the inner except returns str(resp).
AttemptMalformed ==
    /\ pc = "call_loop"
    /\ LoopContinues(attempt, tries)
    /\ client = "configured"
    /\ served' = Append(served, [kind |-> "malformed", x |-> StrOfResp])
    /\ ret' = StrOfResp
    /\ pc' = "call_return"
    /\ UNCHANGED << namespaceVars, requestVars, extractVars, tries, attempt,
                    last_exc, sleeps, surfaced >>

\* The call raises: the service fails, or client is None and the attribute
\* access itself raises before any call is made.
AttemptRaises ==
    /\ pc = "call_loop"
    /\ LoopContinues(attempt, tries)
    /\ \E c \in ErrorCauses :
          LET e == IF client = "None" THEN <<"AttributeError", attempt + 1>>
                   ELSE <<c, Len(served) + 1>>
          IN  /\ served' = IF client = "None" THEN served
                           ELSE Append(served, [kind |-> "error", x |-> e])
              /\ IF Caught(e)
                 THEN /\ last_exc' = NextLastExc(last_exc, e)
                      /\ sleeps' = Append(sleeps, BackoffDelay(attempt))
                      /\ attempt' = attempt + 1
                      /\ UNCHANGED << pc, error >>
                 ELSE /\ error' = e
                      /\ pc' = "raised"
                      /\ UNCHANGED << last_exc, sleeps, attempt >>
    /\ UNCHANGED << client, defined, sidebarVars, resultVars, requestVars,
                    extractVars, tries, ret, surfaced >>

\* The loop ends without a return: st.error(last_exc); return None
Exhausted ==
    /\ pc = "call_loop"
    /\ ~LoopContinues(attempt, tries)
    /\ surfaced' = last_exc
    /\ ret' = PyNone
    /\ pc' = "call_return"
    /\ UNCHANGED << namespaceVars, requestVars, extractVars, tries, attempt,
                    last_exc, sleeps, served >>

CallLLM == CallEntry \/ AttemptReturns \/ AttemptMalformed \/ AttemptRaises \/ Exhausted

\* ------------------------------------------------------------------------
\* Initial values
\* ------------------------------------------------------------------------
NamespaceBlank ==
    /\ client = "None"
    /\ defined = {}
    /\ industry = "General / Consumer"
    /\ depth = "Standard (detailed)"
    /\ include_user_flow = TRUE
    /\ include_metrics = TRUE
    /\ include_templates = TRUE
    /\ model = "gpt-4o-mini"
    /\ temperature = 2
    /\ run_button = FALSE
    /\ app_a = "Google Pay"
    /\ app_b = "PhonePe"
    /\ teardown_a = NoneVal /\ raw_a = PyNone
    /\ teardown_b = NoneVal /\ raw_b = PyNone
    /\ error = NoError

RequestBlank ==
    /\ req = "none"
    /\ product_text = ""
    /\ prompt = <<>>
    /\ invocations = 0

CallBlank ==
    /\ tries = 0
    /\ attempt = 0
    /\ last_exc = NoExc
    /\ ret = PyNone
    /\ sleeps = <<>>
    /\ served = <<>>
    /\ surfaced = NoError

ExtractBlank ==
    /\ text = PyNone
    /\ origin = NoneVal
    /\ result = NoneVal
    /\ path = "none"

\* ------------------------------------------------------------------------
\* call_llm on its own: any client state, model, temperature and budget
\* ------------------------------------------------------------------------
InitCall ==
    /\ pc = "call_llm"
    /\ client \in {"None", "configured"}
    /\ defined = {"call_llm"}
    /\ industry = "General / Consumer"
    /\ depth = "Standard (detailed)"
    /\ include_user_flow = TRUE
    /\ include_metrics = TRUE
    /\ include_templates = TRUE
    /\ model \in Models
    /\ temperature \in Temperatures
    /\ run_button = FALSE
    /\ app_a = "Google Pay"
    /\ app_b = "PhonePe"
    /\ teardown_a = NoneVal /\ raw_a = PyNone
    /\ teardown_b = NoneVal /\ raw_b = PyNone
    /\ error = NoError
    /\ req = "none"
    /\ product_text = "Google Pay"
    /\ prompt = build_teardown_prompt("Google Pay", "General / Consumer",
                                      "Standard (detailed)", TRUE, TRUE, TRUE)
    /\ invocations = 1
    /\ tries \in 0..MaxTries
    /\ attempt = 0
    /\ last_exc = NoExc
    /\ ret = PyNone
    /\ sleeps = <<>>
    /\ served = <<>>
    /\ surfaced = NoError
    /\ ExtractBlank

NextCall == CallLLM

SpecCall == InitCall /\ [][NextCall]_vars

\* ------------------------------------------------------------------------
\* generate_teardown
\* ------------------------------------------------------------------------

\* str.strip() on the inputs the form is given.
Strip(s) == IF s = "   " THEN "" ELSE s

\* str.lower() on the industry keys.
Lower(k) ==
    CASE k = "General / Consumer" -> "general / consumer"
      [] k = "FinTech" -> "fintech"
      [] k = "Marketplace" -> "marketplace"
      [] k = "SaaS / B2B" -> "saas / b2b"
      [] k = "EdTech" -> "edtech"
      [] k = "HealthTech" -> "healthtech"
      [] OTHER -> k

\* The fallback demo document.
Demo(ptext, industry_key, user_flow) ==
    Obj(<< Str(<<"strategy">>),
           Arr(<< Str(<<"Position as fast, low-friction ", Lower(industry_key), " product">>),
                  Str(<<"Target mass market and power users">>),
                  Str(<<"Monetize via freemium and transactional fees">>) >>),
           Str(<<"growth_loops">>),
           Arr(<< Str(<<"Referral loop: ...">>), Str(<<"Merchant incentives: ...">>) >>),
           Str(<<"engagement_mechanics">>),
           Arr(<< Str(<<"Onboarding checklist with progress bar">>),
                  Str(<<"Daily digest push for key actions">>) >>),
           Str(<<"kpis">>),
           Obj(<< Str(<<"north_star">>), Str(<<"DAU -> Paid conversion">>),
                  Str(<<"leading_indicators">>), Arr(<< Str(<<"activation_rate">>) >>),
                  Str(<<"dashboard_analytics">>), Arr(<< Str(<<"signup_rate">>) >>) >>),
           Str(<<"ux_teardown">>),
           Arr(<< Str(<<"Clear CTA on home screen ...">>),
                  Str(IF user_flow THEN <<"Suggested user flow: ...">> ELSE <<>>) >>),
           Str(<<"swot">>),
           Obj(<< Str(<<"strengths">>), Arr(<< Str(<<"Strong UX">>), Str(<<"Partnerships">>) >>),
                  Str(<<"weaknesses">>), Arr(<< Str(<<"Customer acquisition cost">>) >>),
                  Str(<<"opportunities">>), Arr(<< Str(<<"New monetization">>) >>),
                  Str(<<"threats">>), Arr(<< Str(<<"Regulatory risk">>) >>) >>),
           Str(<<"opportunities">>),
           Arr(<< Str(<<"Test 1: ...">>), Str(<<"Test 2: ...">>) >>),
           Str(<<"one_pager">>),
           Str(<<ptext, " - Quick product thesis and 3-line exec summary.">>) >>)

\* parsed = extract_json(raw) if raw else None
ParsedOf(raw) ==
    IF raw = PyNone \/ raw = <<>> THEN NoneVal ELSE ExtractJson(raw)

\* Mutation: the raw text is dropped when nothing was parsed.
GenerateTeardownDropsRaw(parsed, raw, demo) ==
    IF parsed = NoneVal THEN <<demo, PyNone>> ELSE <<parsed, raw>>

\* The pair generate_teardown returns: (demo, raw) when nothing was parsed,
\* (parsed, raw) otherwise.
GenerateTeardownResult(parsed, raw, demo) ==
    IF parsed = NoneVal THEN <<demo, raw>> ELSE <<parsed, raw>>

\* generate_teardown up to its call of call_llm(prompt, ..., tries=3), for
\* product x of the run_button branch.
GenerateStart(x) ==
    /\ pc = (IF x = "a" THEN "gen_a" ELSE "gen_b")
    /\ req' = x
    /\ product_text' = Strip(IF x = "a" THEN app_a ELSE app_b)
    /\ prompt' = build_teardown_prompt(product_text', industry, depth,
                                       include_user_flow, include_metrics,
                                       include_templates)
    /\ invocations' = 1
    /\ tries' = GenerateTries
    /\ attempt' = 0
    /\ last_exc' = NoExc
    /\ ret' = PyNone
    /\ sleeps' = <<>>
    /\ served' = <<>>
    /\ surfaced' = NoError
    /\ pc' = "call_llm"
    /\ UNCHANGED << namespaceVars, extractVars >>

\* teardown_x, raw_x = generate_teardown(...) for the request in req, and the
\* statement the run goes on with.
AssignTeardown(pair) ==
    IF req = "a"
    THEN /\ teardown_a' = pair[1] /\ raw_a' = pair[2]
         /\ pc' = "gen_b"
         /\ UNCHANGED << teardown_b, raw_b >>
    ELSE /\ teardown_b' = pair[1] /\ raw_b' = pair[2]
         /\ pc' = "display"
         /\ UNCHANGED << teardown_a, raw_a >>

\* generate_teardown after call_llm returned.
GenerateFinish ==
    /\ pc = "call_return"
    /\ req \in {"a", "b"}
    /\ AssignTeardown(GenerateTeardownResult(
                         ParsedOf(ret), ret,
                         Demo(product_text, industry, include_user_flow)))
    /\ UNCHANGED << client, defined, sidebarVars, error, requestVars, callVars,
                    extractVars >>

\* ------------------------------------------------------------------------
\* One top-to-bottom run of the script
\* ------------------------------------------------------------------------
SidebarIndustries == {"General / Consumer", "FinTech"}
AppInputsA == {"   ", "Google Pay"}
AppInputsB == {"", "PhonePe"}

\* client = None; if the key is in st.secrets: OpenAI(...) or its failure
ClientInit ==
    /\ pc = "client_init"
    /\ \E outcome \in {"no_key", "constructed", "constructor_raises"} :
          client' = IF outcome = "constructed" THEN "configured" ELSE "None"
    /\ pc' = "sidebar"
    /\ UNCHANGED << defined, sidebarVars, resultVars, error, requestVars,
                    callVars, extractVars >>

\* The sidebar widgets and the two product inputs.  The metrics and templates
\* checkboxes and the temperature slider stay at their defaults; the optional
\* feature text areas stay empty, so product_text is the stripped name.
Sidebar ==
    /\ pc = "sidebar"
    /\ industry' \in SidebarIndustries
    /\ depth' \in DOMAIN DepthInstructions
    /\ include_user_flow' \in BOOLEAN
    /\ include_metrics' = TRUE
    /\ include_templates' = TRUE
    /\ model' \in Models
    /\ temperature' = 2
    /\ run_button' \in BOOLEAN
    /\ app_a' \in AppInputsA
    /\ app_b' \in AppInputsB
    /\ pc' = "defs"
    /\ UNCHANGED << client, defined, resultVars, error, requestVars, callVars,
                    extractVars >>

\* The def statements of the helpers section and of generate_teardown.
DefineHelpers ==
    /\ pc = "defs"
    /\ defined' = defined \cup {"depth_to_instruction", "build_teardown_prompt",
                                "call_llm", "extract_json", "generate_teardown"}
    /\ pc' = "run"
    /\ UNCHANGED << client, sidebarVars, resultVars, error, requestVars,
                    callVars, extractVars >>

\* teardown_a = None ...; if run_button: either the input error or the two
\* generate_teardown calls.
RunBranch ==
    /\ pc = "run"
    /\ teardown_a' = NoneVal /\ raw_a' = PyNone
    /\ teardown_b' = NoneVal /\ raw_b' = PyNone
    /\ pc' = IF run_button /\ Strip(app_a) # "" /\ Strip(app_b) # ""
             THEN "gen_a" ELSE "display"
    /\ UNCHANGED << client, defined, sidebarVars, error, requestVars, callVars,
                    extractVars >>

\* The display section: the info message, or the two panes, whose download
\* buttons look up markdown_from_teardown and whose panes call .get on the
\* teardowns.
Display ==
    /\ pc = "display"
    /\ IF teardown_a = NoneVal \/ teardown_b = NoneVal
       THEN pc' = "def_markdown" /\ UNCHANGED error
       ELSE IF "markdown_from_teardown" \notin defined
            THEN error' = NameError /\ pc' = "aborted"
            ELSE IF teardown_a.t # "obj" \/ teardown_b.t # "obj"
                 THEN error' = AttributeError /\ pc' = "aborted"
                 ELSE pc' = "def_markdown" /\ UNCHANGED error
    /\ UNCHANGED << client, defined, sidebarVars, resultVars, requestVars,
                    callVars, extractVars >>

\* def markdown_from_teardown(td, title)
DefineMarkdown ==
    /\ pc = "def_markdown"
    /\ defined' = defined \cup {"markdown_from_teardown"}
    /\ pc' = "end"
    /\ UNCHANGED << client, sidebarVars, resultVars, error, requestVars,
                    callVars, extractVars >>

Init ==
    /\ pc = "client_init"
    /\ NamespaceBlank
    /\ RequestBlank
    /\ CallBlank
    /\ ExtractBlank

\* The next interaction runs the script again from the top in a new namespace.
Rerun ==
    /\ pc \in {"end", "aborted"}
    /\ pc' = "client_init"
    /\ client' = "None" /\ defined' = {}
    /\ industry' = "General / Consumer" /\ depth' = "Standard (detailed)"
    /\ include_user_flow' = TRUE /\ include_metrics' = TRUE
    /\ include_templates' = TRUE
    /\ model' = "gpt-4o-mini" /\ temperature' = 2 /\ run_button' = FALSE
    /\ app_a' = "Google Pay" /\ app_b' = "PhonePe"
    /\ teardown_a' = NoneVal /\ raw_a' = PyNone
    /\ teardown_b' = NoneVal /\ raw_b' = PyNone
    /\ error' = NoError
    /\ req' = "none" /\ product_text' = "" /\ prompt' = <<>> /\ invocations' = 0
    /\ tries' = 0 /\ attempt' = 0 /\ last_exc' = NoExc /\ ret' = PyNone
    /\ sleeps' = <<>> /\ served' = <<>> /\ surfaced' = NoError
    /\ UNCHANGED extractVars

Next ==
    \/ ClientInit \/ Sidebar \/ DefineHelpers \/ RunBranch
    \/ GenerateStart("a") \/ GenerateStart("b")
    \/ CallLLM
    \/ GenerateFinish
    \/ Display \/ DefineMarkdown \/ Rerun

Spec == Init /\ [][Next]_vars

\* ------------------------------------------------------------------------
\* extract_json on its own
\* ------------------------------------------------------------------------

\* All sequences over S of length at most n.
SeqsUpTo(S, n) == UNION {[1..k -> S] : k \in 0..n}

\* Characters the string values of serialized objects are made of.
StrAlphabet == {TICKS, JSONWORD, "{", "}", ",", QUOTE}

KeyA == Str(<<LETTER>>)
KeyB == Str(<<LETTER, LETTER>>)

\* Well-formed objects: one string value of any content, and a few shapes with
\* numbers, arrays, nesting and two keys.
Objects ==
    {Obj(<<KeyA, Str(c)>>) : c \in SeqsUpTo(StrAlphabet, MaxStrLen)}
    \cup { Obj(<<>>),
           SmallObject,
           Obj(<<KeyA, Arr(<<Num(<<DIGIT>>), Str(<<",", "]">>)>>)>>),
           Obj(<<KeyA, Obj(<<KeyB, Arr(<<>>)>>), KeyB, Str(<<BSLASH, QUOTE>>)>>),
           Obj(<<KeyA, Num(<<DIGIT, DIGIT>>), KeyB, Str(<<",", "}">>)>>) }

\* Pieces raw texts are concatenated from: the opening and the closing fence,
\* whitespace, prose, punctuation, a number, a key with its colon, an object.
Parts ==
    { <<TICKS, JSONWORD>>, <<TICKS>>, <<SPACE>>, <<LETTER>>, <<",">>,
      <<"{">>, <<"}">>, <<"[">>, <<"]">>, <<DIGIT>>,
      <<QUOTE, LETTER, QUOTE, ":">>, <<"{", "}">> }

RECURSIVE Concat(_)
Concat(ps) == IF ps = <<>> THEN <<>> ELSE Head(ps) \o Concat(Tail(ps))

RawTexts == {Concat(ps) : ps \in SeqsUpTo(Parts, MaxParts)}

InitExtract ==
    /\ pc = "extract"
    /\ NamespaceBlank
    /\ RequestBlank
    /\ CallBlank
    /\ \/ text \in RawTexts \cup {PyNone} /\ origin = NoneVal
       \/ \E O \in Objects : text = Dumps(O) /\ origin = O
    /\ result = NoneVal
    /\ path = "none"

SetResult(run) ==
    /\ result' = run.val
    /\ path' = run.path

Extract ==
    /\ pc = "extract"
    /\ SetResult(ExtractJsonRun(text))
    /\ pc' = "extracted"
    /\ UNCHANGED << namespaceVars, requestVars, callVars, text, origin >>

NextExtract == Extract

SpecExtract == InitExtract /\ [][NextExtract]_vars

\* ------------------------------------------------------------------------
\* build_teardown_prompt on its own, options outside the lookups included
\* ------------------------------------------------------------------------
InitPrompt ==
    /\ pc = "build"
    /\ client = "None"
    /\ defined = {"depth_to_instruction", "build_teardown_prompt"}
    /\ industry \in DOMAIN INDUSTRY_TEMPLATES \cup {"Gaming"}
    /\ depth \in DOMAIN DepthInstructions \cup {"Exhaustive", ""}
    /\ include_user_flow \in BOOLEAN
    /\ include_metrics \in BOOLEAN
    /\ include_templates \in BOOLEAN
    /\ model = "gpt-4o-mini"
    /\ temperature = 2
    /\ run_button = FALSE
    /\ app_a = "Google Pay"
    /\ app_b = "PhonePe"
    /\ teardown_a = NoneVal /\ raw_a = PyNone
    /\ teardown_b = NoneVal /\ raw_b = PyNone
    /\ error = NoError
    /\ req = "none"
    /\ product_text \in {"Google Pay", "PhonePe"}
    /\ prompt = <<>>
    /\ invocations = 0
    /\ CallBlank
    /\ ExtractBlank

BuildPrompt ==
    /\ pc = "build"
    /\ prompt' = build_teardown_prompt(product_text, industry, depth,
                                       include_user_flow, include_metrics,
                                       include_templates)
    /\ pc' = "built"
    /\ UNCHANGED << namespaceVars, req, product_text, invocations, callVars,
                    extractVars >>

NextPrompt == BuildPrompt

SpecPrompt == InitPrompt /\ [][NextPrompt]_vars

\* ------------------------------------------------------------------------
\* Properties of call_llm (under SpecCall)
\* ------------------------------------------------------------------------
Returned  == pc = "call_return"
AllFailed == \A n \in 1..Len(served) : served[n].kind = "error"
Budgeted  == client = "configured" /\ tries >= 1

\* C1: with a configured client and a budget K >= 1, no call follows a success
\* and at most K calls are made; a run in which the service fails N times and
\* then succeeds returns the text of that success after exactly N+1 calls; a
\* run in which every call fails makes exactly K calls and returns None.
C1_RetryUntilFirstSuccess ==
    Budgeted =>
        /\ Len(served) <= tries
        /\ \A n \in 1..(Len(served) - 1) : served[n].kind = "error"
        /\ (Returned /\ ~AllFailed) =>
               /\ served[Len(served)].kind # "error"
               /\ ret = served[Len(served)].x
        /\ (Returned /\ AllFailed) =>
               /\ Len(served) = tries
               /\ ret = PyNone

\* Two failures, then a success on the third call of a budget of three.
C1_Witness ==
    /\ Returned /\ client = "configured" /\ tries = 3
    /\ Len(served) = 3
    /\ served[1].kind = "error" /\ served[2].kind = "error"
    /\ served[3].kind = "text" /\ served[3].x # <<>>
    /\ ret = served[3].x

\* C2: no exception leaves call_llm; what it returns is the text of a response
\* or None; and when the budget is exhausted the exception displayed is the
\* one the final attempt raised.
C2_NoErrorEscapes ==
    /\ error = NoError
    /\ pc # "raised"
    /\ Returned =>
          \/ ret = PyNone
          \/ \E n \in 1..Len(served) :
                served[n].kind # "error" /\ ret = served[n].x
    /\ (Returned /\ Budgeted /\ AllFailed) =>
          surfaced = served[Len(served)].x

\* A budget of at least two exhausted by failures of different causes.
C2_Witness ==
    /\ Returned /\ client = "configured" /\ tries >= 2
    /\ AllFailed /\ Len(served) = tries
    /\ served[1].x[1] # served[tries].x[1]
    /\ surfaced = served[tries].x
    /\ ret = PyNone

\* C3: without a client, call_llm makes no call to the service, never
\* sleeps, and returns None, whatever the model, temperature and budget.
C3_NoClientFailsFast ==
    client = "None" =>
        /\ served = <<>>
        /\ sleeps = <<>>
        /\ Returned => ret = PyNone

C3_Witness ==
    /\ Returned /\ client = "None" /\ tries = 3
    /\ model = "gpt-4o" /\ temperature = 9
    /\ served = <<>> /\ sleeps = <<>> /\ ret = PyNone

\* C7 (as claimed): a sleep happens only between two attempts, so a run that
\* made calls slept once less than it called, in particular K-1 times when
\* the budget K is exhausted; and successive sleeps strictly grow.
C7_BackoffOnlyBetweenAttempts ==
    /\ (Returned /\ Budgeted) => Len(sleeps) = Len(served) - 1
    /\ (Returned /\ Budgeted /\ AllFailed) => Len(sleeps) = tries - 1
    /\ \A i \in 1..(Len(sleeps) - 1) : sleeps[i] < sleeps[i + 1]

\* ------------------------------------------------------------------------
\* Properties of extract_json (under SpecExtract)
\* ------------------------------------------------------------------------

\* C4 (as claimed): extract_json(json.dumps(O)) = O for every well-formed
\* object O.
C4_RoundTrip ==
    (pc = "extracted" /\ origin # NoneVal) => result = origin

\* C5 (as claimed): whatever extract_json returns other than None is an object.
C5_ResultIsObject ==
    (pc = "extracted" /\ result # NoneVal) => result.t = "obj"

\* The fenced block of the claim: an opening fence <ticks>json, closed by the
\* next <ticks>, holding a brace- or bracket-delimited content.
ClosingFence(txt, p) ==
    IF \E e \in (p + 2)..Len(txt) : txt[e] = TICKS
    THEN CHOOSE e \in (p + 2)..Len(txt) :
            txt[e] = TICKS /\ \A k \in (p + 2)..(e - 1) : txt[k] # TICKS
    ELSE 0

IsJsonBlock(txt, p) ==
    /\ p + 1 <= Len(txt) /\ txt[p] = TICKS /\ txt[p + 1] = JSONWORD
    /\ ClosingFence(txt, p) # 0
    /\ LET c == SubSeq(txt, p + 2, ClosingFence(txt, p) - 1)
           q == SkipWs(c, 1)
       IN  /\ q < Len(c)
           /\ \E r \in (q + 1)..Len(c) :
                 /\ \A k \in (r + 1)..Len(c) : c[k] = SPACE
                 /\ \/ c[q] = "{" /\ c[r] = "}"
                    \/ c[q] = "[" /\ c[r] = "]"

\* Steps (2) to (5) of the claim on a candidate text.
ClaimedParseSteps(cand) ==
    IF Loads(cand).ok THEN Loads(cand).v
    ELSE IF Find(cand, "{") # 0 /\ RFind(cand, "}") > Find(cand, "{")
         THEN LET span == SubSeq(cand, Find(cand, "{"), RFind(cand, "}")) IN
              IF Loads(span).ok THEN Loads(span).v
              ELSE IF Loads(StripTrailingCommas(span, 1)).ok
                   THEN Loads(StripTrailingCommas(span, 1)).v
                   ELSE NoneVal
         ELSE NoneVal

ClaimedChain(txt) ==
    IF txt = PyNone \/ txt = <<>> THEN NoneVal
    ELSE IF \E p \in 1..Len(txt) : IsJsonBlock(txt, p)
         THEN LET p == CHOOSE x \in 1..Len(txt) :
                          IsJsonBlock(txt, x)
                          /\ \A y \in 1..(x - 1) : ~IsJsonBlock(txt, y)
              IN  ClaimedParseSteps(SubSeq(txt, p + 2, ClosingFence(txt, p) - 1))
         ELSE ClaimedParseSteps(txt)

\* C6 (as claimed): extract_json returns what the fallback chain gives, the
\* candidate being only the content of the fenced block when there is one.
C6_FallbackChain ==
    pc = "extracted" => result = ClaimedChain(text)

\* ------------------------------------------------------------------------
\* Properties of build_teardown_prompt (under SpecPrompt)
\* ------------------------------------------------------------------------

\* C8 (as claimed): no error is raised; a depth outside the lookup puts a
\* non-empty fallback clause into the prompt; an industry outside
\* INDUSTRY_TEMPLATES puts an empty hint into it.
C8_UnknownOptionsFallBack ==
    pc = "built" =>
        /\ error = NoError
        /\ depth \notin DOMAIN DepthInstructions => PromptDepthClause(prompt) # ""
        /\ industry \notin DOMAIN INDUSTRY_TEMPLATES => PromptContext(prompt) = ""

\* ------------------------------------------------------------------------
\* Properties of the script run (under Spec)
\* ------------------------------------------------------------------------
Finished(x)   == req = x /\ pc = (IF x = "a" THEN "gen_b" ELSE "display")
CallSucceeded == served # <<>> /\ served[Len(served)].kind # "error"
LastText      == served[Len(served)].x
RawOf(x)      == IF x = "a" THEN raw_a ELSE raw_b
TeardownOf(x) == IF x = "a" THEN teardown_a ELSE teardown_b

\* C9: when the completion call of a request succeeded with a text from which
\* nothing is parsed, generate_teardown has invoked call_llm once, goes on to
\* the next statement of the script, and hands the text back unchanged.
C9_ExtractionFailureIsTerminal ==
    \A x \in {"a", "b"} :
        (Finished(x) /\ CallSucceeded /\ ParsedOf(LastText) = NoneVal) =>
            /\ invocations = 1
            /\ Len(served) <= GenerateTries
            /\ RawOf(x) = LastText

\* Product A answered with prose after one failed attempt.
C9_Witness ==
    /\ Finished("a") /\ Len(served) = 2
    /\ served[2].kind = "text" /\ LastText = <<LETTER, SPACE, LETTER>>
    /\ raw_a = LastText
    /\ teardown_a = Demo(product_text, industry, include_user_flow)
    /\ invocations = 1

\* C10 (as claimed): when the display section builds the download buttons of
\* two generated teardowns, markdown_from_teardown is defined, and the run
\* does not end in a NameError.
C10_MarkdownHelperDefined ==
    /\ (pc = "display" /\ teardown_a # NoneVal /\ teardown_b # NoneVal) =>
           "markdown_from_teardown" \in defined
    /\ error # NameError

====
